---- MODULE Spec2Model ----
(***************************************************************************)
(* In-play decision and cash-out monitoring of danfercf1/football_ml.      *)
(*                                                                         *)
(* The model follows the code of                                           *)
(*   src/src/redis_tracker.py            (RedisTracker)                    *)
(*   src/scripts/under_x_inplay.py       (UnderXInPlayStrategy)            *)
(*   src/scripts/underx_strategy_scheduler.py                              *)
(*   src/scripts/monitor_high_risk_games.py                                *)
(*   src/src/betting_rules.py, src/src/ml_predictor.py                     *)
(*                                                                         *)
(* Redis keys "bet:{match_id}" are the variable bet, the keys              *)
(* "bet_scores:{match_id}" the variable betScores, the MongoDB field       *)
(* cashout of an underxmatches document the variable cashout.  Signals     *)
(* handed to RabbitMQ are counted in betSignals, calls of                  *)
(* send_cashout_signal in cashSignals.                                     *)
(***************************************************************************)
EXTENDS Integers, Sequences, FiniteSets, TLC

VARIABLES
    now,          \* int(time.time()), in seconds since the start of the run
    bet,          \* Redis "bet:{match_id}": NoBet or the record track_bet wrote
    betSignals,   \* per match_id: bet signals published by process_match
    pc,           \* per poller: position inside analyze_match / track_bet
    pend,         \* per poller: the bet_details it is about to SET
    created,      \* per poller: the key its SET wrote in this round
    schedTodo,    \* scheduler pass: matches of the batch not yet analysed
    schedPc,      \* scheduler pass: "idle" or "running"
    schedSuitable,\* scheduler pass: number of suitable results so far
    notified,     \* push notifications sent by the scheduler
    betScores,    \* Redis "bet_scores:{match_id}" (written by the bet executor)
    cashout,      \* MongoDB underxmatches.cashout per match
    cashSignals,  \* per match: calls of send_cashout_signal
    obs           \* the latest cash-out check: what it read and what it did

vars == <<now, bet, betSignals, pc, pend, created, schedTodo, schedPc,
          schedSuitable, notified, betScores, cashout, cashSignals,
          obs>>

----------------------------------------------------------------------------
(* Bounds of the model *)

MaxHome == 3            \* home goals of a snapshot range over 0..MaxHome
MaxAway == 1            \* away goals of a snapshot range over 0..MaxAway
MaxTicks == 2           \* the clock advances at most MaxTicks times
MaxSignals == 2         \* cap of the signal counters
MaxBetLevel == 1        \* bet_scores values are g-g for g in 0..MaxBetLevel

(* Program constants *)

BetTTL == 3600          \* ex=3600 of track_bet
TickStep == 1800        \* the clock advances in steps of half a TTL
MinMinute == 52         \* UnderXInPlayStrategy.min_minute
MaxMinute == 61         \* UnderXInPlayStrategy.max_minute
MinGoals == 1           \* UnderXInPlayStrategy.min_goals
MaxGoals == 3           \* UnderXInPlayStrategy.max_goals
LineBuffer == 3         \* target_goal_line = total_goals + 3
HalfTime == 45          \* minute the predictor treats as half-time
MLFromMinute == 50      \* the predictor evaluates from minute 50 on
MLDefaultConf == 75     \* 0.75, the predictor's default confidence
MLSuitableConf == 60    \* is_suitable = confidence >= 0.6
MLVetoConf == 30        \* confidence < 0.3 overrides to unsuitable
MLOverrideConf == 80    \* confidence > 0.8 overrides to suitable

----------------------------------------------------------------------------
(* Identifiers and values *)

Events == {"m1", "m2"}
EmptyId == ""                   \* str(match_doc.get("_id", "")) without _id
Keys == Events \cup {EmptyId}
Pollers == {"p1", "p2"}

\* A score string: "H - A" (spaced), "H-A" (tight) or one with no two
\* integers in it ("HT", "", "abc").
Formats == {"spaced", "tight"}
BadScore == [h |-> 0, a |-> 0, fmt |-> "bad"]
Scores == [h : 0..MaxHome, a : 0..MaxAway, fmt : Formats] \cup {BadScore}

NoBet == [kind |-> "none"]

\* Minutes of the documents offered to analyze_match.
DocMinutes == {HalfTime, MinMinute, MaxMinute + 1}

\* At most one of the side conditions of a document fails.
Gates == {"ok", "avg_high", "pending_var", "no_odds"}

\* Probability of class 1 returned by the model, in percent.
MLConfs == {25, 90}

\* Scores of the documents: every "H - A" string, the level scores written
\* "H-A", and the unparsable one.
DocScores == {s \in Scores : s.fmt = "spaced" \/ s.h = s.a}

Docs == [minute : DocMinutes, score : DocScores, gate : Gates, conf : MLConfs]

----------------------------------------------------------------------------
(* analyze_match: the decision on one document *)

\* home, away = map(int, score.split(" - ")); ValueError -> total_goals = 0
TotalGoals(score) ==
    IF score.fmt = "spaced" THEN score.h + score.a ELSE 0

\* target_goal_line = total_goals + 3; bet_market = under_{line}.5
BetMarket(d) == TotalGoals(d.score) + LineBuffer

\* under_odds > 0: _get_under_odds found, or simulated, a price
UnderOddsPositive(d) == d.gate # "no_odds"

\* the second assignment of is_suitable_legacy (it replaces the first one,
\* and with it the half-time exception of the testing mode)
LegacySuitable(d) ==
    /\ MinMinute <= d.minute /\ d.minute <= MaxMinute
    /\ MinGoals <= TotalGoals(d.score) /\ TotalGoals(d.score) <= MaxGoals
    /\ d.gate # "avg_high"
    /\ d.gate # "pending_var"

\* A variant of the predictor that asks the model at every minute.
PredictAlways(minute, conf) ==
    [suitable |-> conf >= MLSuitableConf, conf |-> conf]

\* MLPredictor.predict: (True, 0.75) at half-time and before minute 50,
\* else the model's probability with is_suitable = confidence >= 0.6
Predict(minute, conf) ==
    IF minute = HalfTime \/ minute < MLFromMinute
    THEN [suitable |-> TRUE, conf |-> MLDefaultConf]
    ELSE [suitable |-> conf >= MLSuitableConf, conf |-> conf]

\* The three dictionary rules of analyze_match.  The goals rule looks the
\* odds up under the key under_{total_goals + 2.5}.5 while the enhanced
\* match data carries under_{total_goals + 3}.5 only, so market_odds stays 0
\* and the embedded odds check never fails; the stake rule never fails.
DictRulesPass(d) ==
    /\ ~(TotalGoals(d.score) < MinGoals \/ TotalGoals(d.score) > MaxGoals)
    /\ ~(d.minute < MinMinute \/ d.minute > MaxMinute)

\* evaluate_betting_rules, the ML decision logic on is_suitable
BlendSuitable(rulesOk, ml) ==
    IF rulesOk /\ ~ml.suitable
    THEN ~(ml.conf < MLVetoConf)
    ELSE IF ~rulesOk /\ ml.suitable /\ ml.conf > MLOverrideConf
         THEN TRUE
         ELSE rulesOk

\* is_suitable = is_suitable_legacy and rule_results["is_suitable"]
IsSuitable(d) ==
    LegacySuitable(d)
    /\ BlendSuitable(DictRulesPass(d), Predict(d.minute, d.conf))

\* result["bet_signal"] exists: is_suitable and under_odds > 0
HasBetSignal(d) == IsSuitable(d) /\ UnderOddsPositive(d)

----------------------------------------------------------------------------
(* RedisTracker.track_bet and the expiry of Redis keys *)

\* bet_details of track_bet_signal, stamped by track_bet
BetDetails(d, t) ==
    [kind |-> "bet", score |-> d.score, minute |-> d.minute,
     market |-> BetMarket(d), timestamp |-> t]

\* client.set(key, json.dumps(bet_details), ex=3600): an unconditional SET.
\* Nothing is written when Redis does not answer (is_connected is False or
\* the SET raises): track_bet returns False.
TrackBet(store, key, details, up) ==
    IF up THEN [store EXCEPT ![key] = details] ELSE store

\* seconds a key has left to live
TtlLeft(rec, t) == rec.timestamp + BetTTL - t

\* Redis drops a key when its TTL has run out
Expire(store, t) ==
    [k \in Keys |->
        IF store[k] # NoBet /\ TtlLeft(store[k], t) <= 0
        THEN NoBet ELSE store[k]]

Tick ==
    /\ now < MaxTicks * TickStep
    /\ now' = now + TickStep
    /\ bet' = Expire(bet, now + TickStep)
    /\ UNCHANGED <<betSignals, pc, pend, created, schedTodo, schedPc,
                   schedSuitable, notified, betScores, cashout,
                   cashSignals, obs>>

----------------------------------------------------------------------------
(* process_match: one run of the command line script on a document of      *)
(* match e (the document carries _id = e, so match_id = e).                *)

Bump(f, k) == [f EXCEPT ![k] = IF @ < MaxSignals THEN @ + 1 ELSE @]

ProcessMatch(e, d, up, pubOk) ==
    /\ bet' = IF HasBetSignal(d)
              THEN TrackBet(bet, e, BetDetails(d, now), up)
              ELSE bet
    /\ betSignals' = IF HasBetSignal(d) /\ pubOk
                     THEN Bump(betSignals, e)
                     ELSE betSignals
    /\ UNCHANGED <<now, pc, pend, created, schedTodo, schedPc,
                   schedSuitable, notified, betScores, cashout,
                   cashSignals, obs>>

----------------------------------------------------------------------------
(* Two pollers inside analyze_match at the same time.  Each one decides on *)
(* its own copy of the document, then runs track_bet in two steps: the     *)
(* PING of is_connected and the SET.  No step reads the key.               *)

PollAnalyze(p, e, d) ==
    /\ pc[p] = "idle"
    /\ IF HasBetSignal(d)
       THEN /\ pend' = [pend EXCEPT ![p] = [key |-> e, doc |-> d]]
            /\ pc' = [pc EXCEPT ![p] = "ping"]
       ELSE /\ pc' = [pc EXCEPT ![p] = "done"]
            /\ pend' = pend
    /\ UNCHANGED <<now, bet, betSignals, created, schedTodo, schedPc,
                   schedSuitable, notified, betScores, cashout,
                   cashSignals, obs>>

\* if not self.is_connected(): return False
PollPing(p, up) ==
    /\ pc[p] = "ping"
    /\ pc' = [pc EXCEPT ![p] = IF up THEN "set" ELSE "done"]
    /\ UNCHANGED <<now, bet, betSignals, pend, created, schedTodo, schedPc,
                   schedSuitable, notified, betScores, cashout,
                   cashSignals, obs>>

\* bet_details["timestamp"] = int(time.time()); client.set(key, ..., ex=3600)
PollSet(p, ok) ==
    /\ pc[p] = "set"
    /\ bet' = TrackBet(bet, pend[p].key, BetDetails(pend[p].doc, now), ok)
    /\ created' = [created EXCEPT ![p] = IF ok THEN pend[p].key ELSE @]
    /\ pc' = [pc EXCEPT ![p] = "done"]
    /\ UNCHANGED <<now, betSignals, pend, schedTodo, schedPc,
                   schedSuitable, notified, betScores, cashout,
                   cashSignals, obs>>

NextConc ==
    \/ \E p \in Pollers, e \in Events, d \in Docs : PollAnalyze(p, e, d)
    \/ \E p \in Pollers, up \in BOOLEAN : PollPing(p, up)
    \/ \E p \in Pollers, ok \in BOOLEAN : PollSet(p, ok)

----------------------------------------------------------------------------
(* The scheduler: analyze_live_matches of underx_strategy_scheduler.py     *)
(* fetches the live matches and hands them to                              *)
(* UnderXInPlayStrategy.analyze_live_matches, which runs process_live_match*)
(* and analyze_match on each.  process_live_match builds formatted_match   *)
(* with "match_id" but without "_id"; process_match_document then sets     *)
(* match_id = str(match_doc.get("_id", "")) = "", which is not "unknown",  *)
(* so every bet of this path is tracked under the key "bet:".              *)

SchedStart(live) ==
    /\ schedPc = "idle"
    /\ live # {}
    /\ schedPc' = "running"
    /\ schedTodo' = live
    /\ schedSuitable' = 0
    /\ UNCHANGED <<now, bet, betSignals, pc, pend, created, notified,
                   betScores, cashout, cashSignals, obs>>

\* one iteration of the loop of analyze_live_matches
SchedStep(e, d, up) ==
    /\ schedPc = "running"
    /\ e \in schedTodo
    /\ schedTodo' = schedTodo \ {e}
    /\ bet' = IF HasBetSignal(d)
              THEN TrackBet(bet, EmptyId, BetDetails(d, now), up)
              ELSE bet
    /\ schedSuitable' = IF IsSuitable(d) THEN schedSuitable + 1
                        ELSE schedSuitable
    /\ UNCHANGED <<now, betSignals, pc, pend, created, schedPc, notified,
                   betScores, cashout, cashSignals, obs>>

\* after the loop: a push notification when suitable_count > 0; no call of
\* publish_bet_signal anywhere on this path
SchedEnd(sent) ==
    /\ schedPc = "running"
    /\ schedTodo = {}
    /\ schedPc' = "idle"
    /\ notified' = IF schedSuitable > 0 /\ sent /\ notified < MaxSignals
                   THEN notified + 1 ELSE notified
    /\ UNCHANGED <<now, bet, betSignals, pc, pend, created, schedTodo,
                   schedSuitable, betScores, cashout, cashSignals,
                   obs>>

NextSched ==
    \/ \E live \in SUBSET Events : SchedStart(live)
    \/ \E e \in Events, d \in Docs, up \in BOOLEAN : SchedStep(e, d, up)
    \/ \E sent \in BOOLEAN : SchedEnd(sent)
    \/ Tick

----------------------------------------------------------------------------
NoObs == [kind |-> "none"]
NoBetScore == <<-1, -1>>

Init ==
    /\ now = 0
    /\ bet = [k \in Keys |-> NoBet]
    /\ betSignals = [k \in Keys |-> 0]
    /\ pc = [p \in Pollers |-> "idle"]
    /\ pend = [p \in Pollers |-> NoBet]
    /\ created = [p \in Pollers |-> "-"]
    /\ schedTodo = {}
    /\ schedPc = "idle"
    /\ schedSuitable = 0
    /\ notified = 0
    /\ betScores = [e \in Events |-> NoBetScore]
    /\ cashout = [e \in Events |-> FALSE]
    /\ cashSignals = [e \in Events |-> 0]
    /\ obs = NoObs

Next ==
    \/ \E e \in Events, d \in Docs, up \in BOOLEAN, pubOk \in BOOLEAN :
          ProcessMatch(e, d, up, pubOk)
    \/ Tick

Spec == Init /\ [][Next]_vars
SpecConc == Init /\ [][NextConc]_vars
SpecSched == Init /\ [][NextSched]_vars

----------------------------------------------------------------------------
(* Claims on bet placement *)

\* C1: a placement for a match whose bet record is still live is a no-op:
\* in every step, a record that is set and has not expired by the end of the
\* step is left exactly as it was (score, minute, market and placed-at
\* timestamp, hence its expiry time).
C1_LiveRecordUntouched ==
    [][\A k \in Keys :
          (bet[k] # NoBet /\ TtlLeft(bet[k], now') > 0) => bet'[k] = bet[k]]_vars

\* C2: while the bet record of a match is live and its bet signal has been
\* emitted, further positive decisions for that match emit no further bet
\* signal: one record, one signal.
C2_OneSignalPerLiveRecord ==
    [][\A e \in Events :
          (bet[e] # NoBet /\ betSignals[e] > 0)
              => betSignals'[e] = betSignals[e]]_vars

\* C3: of two pollers placing a bet for the same match, at most one creates
\* the record; the other one changes nothing.
C3_OneCreatorPerMatch ==
    \A p, q \in Pollers :
        (p # q /\ created[p] # "-") => created[q] # created[p]

\* C4: when the scheduler has come to rest, every persisted bet record has
\* had its bet signal emitted.
C4_RecordImpliesSignal ==
    schedPc = "idle" =>
        \A k \in Keys : bet[k] # NoBet => betSignals[k] > 0

----------------------------------------------------------------------------
(* Cancelled goals: check_for_canceled_goals_and_act *)

\* int(x) of both halves of score.split(" - "): only the "H - A" form parses.
ParsesSpaced(score) == score.fmt = "spaced"

\* RedisTracker.get_bet_details: None when the store is unreachable or the
\* key is absent.
GetBetDetails(store, key, up) == IF up THEN store[key] ELSE NoBet

\* RedisTracker.check_for_canceled_goals: (has_canceled, bet_details).
CheckForCanceledGoals(store, key, cur, up) ==
    LET details == GetBetDetails(store, key, up) IN
    IF ~up \/ details = NoBet
    THEN [has |-> FALSE, details |-> NoBet]
    ELSE IF ~ParsesSpaced(cur) \/ ~ParsesSpaced(details.score)
    THEN [has |-> FALSE, details |-> details]
    ELSE [has |-> (cur.h + cur.a) < (details.score.h + details.score.a),
          details |-> details]

\* A variant of the guard that forgets to look at the current total.
EmergencyDueAnyTotal(curTotal, betTotal) == betTotal > 0

\* The guard of the emergency cash-out: the current total is 0 and the
\* total at bet time was not.
EmergencyDue(curTotal, betTotal) == curTotal = 0 /\ betTotal > 0

\* The reason handed to publish_cashout_signal, "none" when nothing is
\* published.
CancelReason(store, key, cur, docBet, up) ==
    LET placed == docBet \/ GetBetDetails(store, key, up) # NoBet
        res == CheckForCanceledGoals(store, key, cur, up)
    IN  IF placed /\ res.has /\ res.details # NoBet
           /\ EmergencyDue(cur.h + cur.a,
                           res.details.score.h + res.details.score.a)
        THEN "goal_canceled_emergency"
        ELSE "none"

\* What one call of check_for_canceled_goals_and_act comes to: "no_bet"
\* (it logs that no bet was placed and returns), "no_cancel"
\* (check_for_canceled_goals answered False), "cancel_logged" (a decrease
\* that is not an emergency) or "emitted".  get_bet_details answers None,
\* and check_for_canceled_goals (False, None), both for an absent record
\* and for a store that does not answer.
CancelOutcome(store, key, cur, docBet, up) ==
    LET placed == docBet \/ GetBetDetails(store, key, up) # NoBet
        res == CheckForCanceledGoals(store, key, cur, up)
    IN  IF ~placed THEN "no_bet"
        ELSE IF ~res.has \/ res.details = NoBet THEN "no_cancel"
        ELSE IF CancelReason(store, key, cur, docBet, up) = "none"
        THEN "cancel_logged"
        ELSE "emitted"

\* One call of check_for_canceled_goals_and_act for match key: docBet is the
\* "bet" flag of the match document, pubOk says whether the publisher
\* delivered the signal.
CancelCheck(key, cur, docBet, up, pubOk) ==
    LET reason == CancelReason(bet, key, cur, docBet, up) IN
    /\ obs' = [kind |-> "cancel", id |-> key, cur |-> cur, rec |-> bet[key],
               up |-> up, reason |-> reason,
               outcome |-> CancelOutcome(bet, key, cur, docBet, up),
               urgency |-> IF reason = "none" THEN "none" ELSE "high",
               delivered |-> reason # "none" /\ pubOk]
    /\ UNCHANGED <<now, bet, betSignals, pc, pend, created, schedTodo,
                   schedPc, schedSuitable, notified, betScores, cashout,
                   cashSignals>>

\* The records track_bet_signal can have written at time 0.
PlacedRecords == {BetDetails(d, 0) : d \in {x \in Docs : HasBetSignal(x)}}

InitCancel ==
    /\ now = 0
    /\ bet \in {f \in [Keys -> PlacedRecords \cup {NoBet}] : f[EmptyId] = NoBet}
    /\ betSignals = [k \in Keys |-> 0]
    /\ pc = [p \in Pollers |-> "idle"]
    /\ pend = [p \in Pollers |-> NoBet]
    /\ created = [p \in Pollers |-> "-"]
    /\ schedTodo = {}
    /\ schedPc = "idle"
    /\ schedSuitable = 0
    /\ notified = 0
    /\ betScores = [e \in Events |-> NoBetScore]
    /\ cashout = [e \in Events |-> FALSE]
    /\ cashSignals = [e \in Events |-> 0]
    /\ obs = NoObs

NextCancel ==
    \E e \in Events, cur \in DocScores, docBet \in BOOLEAN, up \in BOOLEAN,
       pubOk \in BOOLEAN :
        CancelCheck(e, cur, docBet, up, pubOk)

SpecCancel == InitCancel /\ [][NextCancel]_vars

\* The latest check was a cancelled-goals check that found a live record in
\* a reachable store and could read both scores.
CancelObserved ==
    /\ obs.kind = "cancel"
    /\ obs.up
    /\ obs.rec # NoBet
    /\ ParsesSpaced(obs.cur)
    /\ ParsesSpaced(obs.rec.score)

----------------------------------------------------------------------------
(* High-risk monitor: monitor_high_risk_games and send_cashout_signal *)

TwoGoalsBefore == 70    \* goals_scored == 2 and minute_val < 70
ThirdGoalBefore == 82   \* goals_scored == 3 and minute_val < 82
ThirdGoalLatest == 85   \* goals_scored == 3 and 82 <= minute_val < 85

\* minute_val = None: liveStats.minute is not a number ("HT", missing).
NonNumeric == 0 - 1

MonMinutes == {TwoGoalsBefore - 1, TwoGoalsBefore, ThirdGoalBefore - 1,
               ThirdGoalBefore, ThirdGoalLatest - 1, ThirdGoalLatest,
               NonNumeric}

\* What find_one returns for a live id: no document, or its liveStats.
NoDoc == [kind |-> "nodoc"]
MonDocs == [score : DocScores, minute : MonMinutes] \cup {NoDoc}

\* The bet_scores values the bet executor can have written.
BetScoreValues == {<<g, g>> : g \in 0..MaxBetLevel} \cup {NoBetScore}

\* parse_score_str: splits on "-" and strips, so "1-0" and "1 - 0" both
\* parse; "HT", "FT" and anything else give (None, None).
ParseScoreStr(score) == score.fmt \in {"spaced", "tight"}

\* A variant of the threshold chain whose first row includes minute 70.
HighRiskReasonThrough70(goals, minuteVal) ==
    IF minuteVal = NonNumeric THEN "none"
    ELSE IF goals = 2 /\ minuteVal <= TwoGoalsBefore
    THEN "2_goals_before_70"
    ELSE IF goals = 3 /\ minuteVal < ThirdGoalBefore
    THEN "3rd_goal_before_82"
    ELSE IF goals = 3 /\ ThirdGoalBefore <= minuteVal
                      /\ minuteVal < ThirdGoalLatest
    THEN "3rd_goal_after_82_before_85"
    ELSE "none"

\* The if / elif chain of the high-risk logic: the reason passed to
\* send_cashout_signal, "none" when no branch is taken.
HighRiskReason(goals, minuteVal) ==
    IF minuteVal = NonNumeric THEN "none"
    ELSE IF goals = 2 /\ minuteVal < TwoGoalsBefore
    THEN "2_goals_before_70"
    ELSE IF goals = 3 /\ minuteVal < ThirdGoalBefore
    THEN "3rd_goal_before_82"
    ELSE IF goals = 3 /\ ThirdGoalBefore <= minuteVal
                      /\ minuteVal < ThirdGoalLatest
    THEN "3rd_goal_after_82_before_85"
    ELSE "none"

\* One iteration of the loop over the live ids, up to the decision.
MonitorReason(doc, betScore, settled) ==
    IF doc = NoDoc \/ betScore = NoBetScore \/ settled THEN "none"
    ELSE IF ~ParseScoreStr(doc.score) THEN "none"
    ELSE IF betScore = <<doc.score.h, doc.score.a>> THEN "none"
    ELSE IF doc.score.h + doc.score.a > betScore[1] + betScore[2]
    THEN HighRiskReason(doc.score.h + doc.score.a - betScore[1] - betScore[2],
                        doc.minute)
    ELSE "none"

\* NotificationService has no method send_notification: the call raises
\* AttributeError, which send_cashout_signal catches after the signal was
\* logged and before the document is updated.
HasSendNotification == FALSE

\* send_cashout_signal: the cashout flags after the call.
SendCashoutSignal(flags, e) ==
    IF HasSendNotification THEN [flags EXCEPT ![e] = TRUE] ELSE flags

MonitorGame(e, doc) ==
    LET reason == MonitorReason(doc, betScores[e], cashout[e])
        after == IF reason = "none" THEN cashout
                 ELSE SendCashoutSignal(cashout, e)
    IN
    /\ cashSignals' = IF reason = "none" THEN cashSignals
                      ELSE Bump(cashSignals, e)
    /\ cashout' = after
    /\ obs' = [kind |-> "monitor", id |-> e, doc |-> doc,
               bet |-> betScores[e], settled |-> cashout[e],
               rec |-> bet[e],
               reason |-> reason, wrote |-> after # cashout]
    /\ UNCHANGED <<now, bet, betSignals, pc, pend, created, schedTodo,
                   schedPc, schedSuitable, notified, betScores>>

\* The bet executor, a separate service, sets cashout on the document.
ExternalCashout(e) ==
    /\ ~cashout[e]
    /\ betScores[e] # NoBetScore
    /\ cashout' = [cashout EXCEPT ![e] = TRUE]
    /\ UNCHANGED <<now, bet, betSignals, pc, pend, created, schedTodo,
                   schedPc, schedSuitable, notified, betScores,
                   cashSignals, obs>>

InitMonitor ==
    /\ now = 0
    /\ bet = [k \in Keys |-> NoBet]
    /\ betSignals = [k \in Keys |-> 0]
    /\ pc = [p \in Pollers |-> "idle"]
    /\ pend = [p \in Pollers |-> NoBet]
    /\ created = [p \in Pollers |-> "-"]
    /\ schedTodo = {}
    /\ schedPc = "idle"
    /\ schedSuitable = 0
    /\ notified = 0
    /\ betScores \in {f \in [Events -> BetScoreValues] :
                         f["m2"] = NoBetScore}
    /\ cashout = [e \in Events |-> FALSE]
    /\ cashSignals = [e \in Events |-> 0]
    /\ obs = NoObs

NextMonitor ==
    \/ \E e \in Events, doc \in MonDocs : MonitorGame(e, doc)
    \/ \E e \in Events : ExternalCashout(e)

SpecMonitor == InitMonitor /\ [][NextMonitor]_vars

----------------------------------------------------------------------------
(* Claims on the high-risk monitor *)

\* The latest check was a monitor iteration for a match with a document, a
\* bet score and no cashout flag, whose live score parsed.
MonObserved ==
    /\ obs.kind = "monitor"
    /\ obs.doc # NoDoc
    /\ obs.bet # NoBetScore
    /\ ~obs.settled
    /\ ParseScoreStr(obs.doc.score)

\* goals_scored of the latest check: live total minus total at bet time.
ObsGoals == obs.doc.score.h + obs.doc.score.a - obs.bet[1] - obs.bet[2]

ObsNumericMinute == obs.doc.minute # NonNumeric

\* C6: with two or more goals since the bet and a minute below 70, the
\* monitor emits a cash-out signal with reason 2_goals_before_70.
C6_TwoOrMoreBefore70 ==
    (MonObserved /\ ObsNumericMinute /\ ObsGoals >= 2
       /\ obs.doc.minute < TwoGoalsBefore)
        => obs.reason = "2_goals_before_70"

\* C7: with three or more goals since the bet and a minute from 70 up to
\* but not including 82, the monitor emits 3rd_goal_before_82.
C7_ThreeOrMoreBefore82 ==
    (MonObserved /\ ObsNumericMinute /\ ObsGoals >= 3
       /\ TwoGoalsBefore <= obs.doc.minute
       /\ obs.doc.minute < ThirdGoalBefore)
        => obs.reason = "3rd_goal_before_82"

\* C8: with three or more goals since the bet and a minute from 82 up to
\* but not including 85, the monitor emits 3rd_goal_after_82_before_85;
\* from minute 85 on it emits nothing.
C8_ThreeOrMoreBefore85 ==
    (MonObserved /\ ObsNumericMinute /\ ObsGoals >= 1) =>
        /\ (ObsGoals >= 3 /\ ThirdGoalBefore <= obs.doc.minute
               /\ obs.doc.minute < ThirdGoalLatest)
              => obs.reason = "3rd_goal_after_82_before_85"
        /\ obs.doc.minute >= ThirdGoalLatest => obs.reason = "none"

C10_SettledAfterCashout ==
    \A e \in Events :
        /\ cashSignals[e] > 0 => cashout[e]
        /\ cashSignals[e] <= 1

----------------------------------------------------------------------------
(* Placement followed by monitoring.  track_bet writes "bet:{match_id}";   *)
(* the monitor reads "bet_scores:{match_id}", a key no code of this        *)
(* repository writes: the bet executor stores it after it has consumed a   *)
(* bet signal.                                                             *)

\* The bet executor stores the score it placed the bet at.
ExecutorStoresBetScore(e) ==
    /\ betSignals[e] > 0
    /\ bet[e] # NoBet
    /\ betScores[e] = NoBetScore
    /\ betScores' = [betScores EXCEPT
                        ![e] = <<bet[e].score.h, bet[e].score.a>>]
    /\ UNCHANGED <<now, bet, betSignals, pc, pend, created, schedTodo,
                   schedPc, schedSuitable, notified, cashout,
                   cashSignals, obs>>

\* The documents and snapshots of this composition: documents at the
\* first minute of the betting window with score "0 - 0" or "1 - 0",
\* snapshots at minute 69 with score "H - 1".
TrackDocs == {d \in Docs : /\ d.minute = MinMinute
                            /\ d.score.fmt = "spaced"
                            /\ d.score.a = 0 /\ d.score.h <= 1
                            /\ d.gate = "ok"
                            /\ d.conf = 90}
TrackMonDocs == {doc \in MonDocs :
                    \/ doc = NoDoc
                    \/ /\ doc.minute = TwoGoalsBefore - 1
                       /\ doc.score.fmt = "spaced" /\ doc.score.a = 1}

NextTrack ==
    \/ \E e \in Events, d \in TrackDocs, up \in BOOLEAN, pubOk \in BOOLEAN :
          ProcessMatch(e, d, up, pubOk)
    \/ \E e \in Events : ExecutorStoresBetScore(e)
    \/ \E e \in Events, doc \in TrackMonDocs : MonitorGame(e, doc)

SpecTrack == Init /\ [][NextTrack]_vars

\* C11: a monitor poll for a match that has a live bet record and a
\* document compares the snapshot with the score at bet time: the match
\* is not skipped as untracked.
C11_LiveRecordIsMonitored ==
    (obs.kind = "monitor" /\ obs.rec # NoBet /\ obs.doc # NoDoc)
        => obs.bet = <<obs.rec.score.h, obs.rec.score.a>>

----------------------------------------------------------------------------
(* Store errors *)

\* C12: a cancelled-goals check made while the store does not answer is
\* not answered like a check that found no record: it comes to neither of
\* the two outcomes an absent record gets.
C12_StoreErrorIsNotNoBet ==
    (obs.kind = "cancel" /\ ~obs.up)
        => obs.outcome \notin {"no_bet", "no_cancel"}

----------------------------------------------------------------------------
(* One pass over a batch, with failures.  Both loops wrap the body of an   *)
(* iteration in try / except Exception, log and go on to the next match.   *)

Loops == {"analysis", "monitor"}

\* The documents of a pass: those of TrackDocs and one whose score does not
\* parse.
BatchDocs == TrackDocs \cup {d \in Docs : /\ d.score = BadScore
                                          /\ d.minute = MinMinute
                                          /\ d.gate = "ok" /\ d.conf = 90}

\* A variant of the except clause that gives up the rest of the batch.
AbortAfterError(todo, e) == {}

\* except Exception as e: logger.error(...), then the next iteration.
ContinueAfterError(todo, e) == todo \ {e}

\* The loop receives its list of matches.
BatchStart(loop, live) ==
    /\ schedPc = "idle"
    /\ live # {}
    /\ schedPc' = "running"
    /\ schedTodo' = live
    /\ schedSuitable' = 0
    /\ obs' = [kind |-> "pass", loop |-> loop, batch |-> live, done |-> <<>>]
    /\ UNCHANGED <<now, bet, betSignals, pc, pend, created, notified,
                   betScores, cashout, cashSignals>>

\* One iteration of UnderXInPlayStrategy.analyze_live_matches: "ok" runs
\* process_live_match to its end, "error" is an exception process_live_match
\* catches itself (it returns {"error": ...}), "raised" one that reaches the
\* except clause of the loop.
AnalysisStep(e, d, up, outcome) ==
    /\ schedPc = "running"
    /\ obs.kind = "pass" /\ obs.loop = "analysis"
    /\ e \in schedTodo
    /\ schedTodo' = IF outcome = "ok" THEN schedTodo \ {e}
                    ELSE ContinueAfterError(schedTodo, e)
    /\ bet' = IF outcome = "ok" /\ HasBetSignal(d)
              THEN TrackBet(bet, EmptyId, BetDetails(d, now), up)
              ELSE bet
    /\ schedSuitable' = IF outcome = "ok" /\ IsSuitable(d)
                        THEN schedSuitable + 1
                        ELSE schedSuitable
    /\ obs' = [obs EXCEPT !.done = Append(@, [id |-> e, outcome |-> outcome])]
    /\ UNCHANGED <<now, betSignals, pc, pend, created, schedPc, notified,
                   betScores, cashout, cashSignals>>

\* One iteration of the loop of monitor_high_risk_games: "raised" is any
\* exception inside the try block, before a decision is reached.
MonitorStep(e, doc, outcome) ==
    LET reason == IF outcome = "ok"
                  THEN MonitorReason(doc, betScores[e], cashout[e])
                  ELSE "none"
    IN
    /\ schedPc = "running"
    /\ obs.kind = "pass" /\ obs.loop = "monitor"
    /\ e \in schedTodo
    /\ schedTodo' = IF outcome = "ok" THEN schedTodo \ {e}
                    ELSE ContinueAfterError(schedTodo, e)
    /\ cashSignals' = IF reason = "none" THEN cashSignals
                      ELSE Bump(cashSignals, e)
    /\ cashout' = IF reason = "none" THEN cashout
                  ELSE SendCashoutSignal(cashout, e)
    /\ obs' = [obs EXCEPT !.done = Append(@, [id |-> e, outcome |-> outcome])]
    /\ UNCHANGED <<now, bet, betSignals, pc, pend, created, schedPc,
                   schedSuitable, notified, betScores>>

NextBatch ==
    \/ \E loop \in Loops, live \in SUBSET Events : BatchStart(loop, live)
    \/ \E e \in Events, d \in BatchDocs, up \in BOOLEAN,
          outcome \in {"ok", "error", "raised"} :
            AnalysisStep(e, d, up, outcome)
    \/ \E e \in Events, doc \in TrackMonDocs, outcome \in {"ok", "raised"} :
            MonitorStep(e, doc, outcome)
    \/ \E sent \in BOOLEAN : SchedEnd(sent)

SpecBatch == InitMonitor /\ [][NextBatch]_vars

\* The matches the running pass has been through.
PassDone == {obs.done[i].id : i \in 1..Len(obs.done)}

\* C13: in a pass of either loop, whatever happened to the matches gone
\* through so far, every match of the batch has been gone through or is
\* still to come; when the pass is over every match has been gone through.
C13_FailureKeepsBatch ==
    obs.kind = "pass" =>
        /\ PassDone \cup schedTodo = obs.batch
        /\ schedPc = "idle" => PassDone = obs.batch

\* A pass over two matches is over: the first one raised, the second one
\* was processed.
C13_Witness ==
    /\ obs.kind = "pass"
    /\ schedPc = "idle"
    /\ Len(obs.done) = 2
    /\ obs.done[1].outcome = "raised"
    /\ obs.done[2].outcome = "ok"
    /\ obs.done[1].id # obs.done[2].id

----------------------------------------------------------------------------
(* evaluate_betting_rules: the rules *)

StakeHalf == 500000     \* stake 0.50, in millionths of a unit
DivisorEight == 8       \* divisor 8
OddsMin == 101          \* odds min 1.01, in hundredths
OddsMax == 104          \* odds max 1.04, in hundredths
LinesTried == 4         \* OddsRule tries total_goals + 0.5 .. + 3.5

\* The keys under_{N}.5 of a snapshot's odds, by the distance of N from the
\* total goals of the snapshot: 0 the nearest line, 3 the line three goals
\* away.  A price is in hundredths; 0 says the key is absent.
Offsets == {0, 3}
Prices == {0, 103, 150}

\* match_data["odds"]: no such key, an empty dict, under_ keys at the top
\* level ("direct"), or the keys inside overUnderOdds.under ("nested").
NoQuotes == [k \in Offsets |-> 0]
OddsData ==
    {[form |-> "absent", q |-> NoQuotes], [form |-> "empty", q |-> NoQuotes]}
    \cup {[form |-> f, q |-> q] :
              f \in {"direct", "nested"},
              q \in {x \in [Offsets -> Prices] : x # NoQuotes /\ x[0] # 103}}

\* f"under_{total_goals + buffer}.5": the integer buffer 3 gives the key
\* three lines away; the float buffer 2.5 gives a key like under_3.5.5 that
\* no snapshot carries.  Buffers are in halves: 6 is 3, 5 is 2.5.
NoOffset == 0 - 1
GoalsMarketOffset(buffer2) ==
    IF buffer2 % 2 = 0 THEN buffer2 \div 2 ELSE NoOffset

\* The rules.  repr says whether the rule is a dictionary or an object of
\* a BettingRule subclass.
Reprs == {"dict", "class"}

\* hasOdds: the rule carries an "odds" range; a GoalsRule object always
\* does.
GoalsRules ==
    {r \in [repr : Reprs, type : {"goals"}, active : BOOLEAN,
            min_goals : {MinGoals}, max_goals : {MaxGoals},
            buffer2 : {5, 6}, hasOdds : BOOLEAN,
            odds_min : {OddsMin}, odds_max : {OddsMax}] :
        r.repr = "class" => r.hasOdds}

TimeRules ==
    [repr : Reprs, type : {"time"}, active : BOOLEAN,
     min_minute : {MinMinute}, max_minute : {MaxMinute}]

StakeRules ==
    [repr : Reprs, type : {"stake"}, active : BOOLEAN,
     stake : {0, StakeHalf}, stake_strategy : {"fixed"}]

OddsRules ==
    [repr : Reprs, type : {"odds"}, active : BOOLEAN,
     min : {OddsMin}, max : {OddsMax}]

DivisorRules ==
    [repr : Reprs, type : {"divisor"}, active : BOOLEAN,
     divisor : {DivisorEight}]

\* A composite rule as get_betting_rules_from_db formats it: a list of
\* conditions over goals and time.  There is no class for it.
GoalsAtMost == [type |-> "goals", comparison |-> "<=", value |-> MaxGoals]
TimeBetween == [type |-> "time", comparison |-> "between",
                min |-> MinMinute, max |-> MaxMinute]
CompositeRules ==
    [repr : {"dict"}, type : {"composite"}, active : BOOLEAN,
     conditions : {<<GoalsAtMost>>, <<GoalsAtMost, TimeBetween>>}]

\* results as evaluate_betting_rules initialises it; divisor 0 stands for
\* None.
NoDivisor == 0
InitialResults ==
    [is_suitable |-> TRUE, rules_passed |-> <<>>, rules_failed |-> <<>>,
     stake |-> 0, stake_strategy |-> "none", divisor |-> NoDivisor]

\* The price found under the key at distance k, 0 when there is none.
QuoteAt(odds, k) ==
    IF odds.form \in {"direct", "nested"} /\ k \in Offsets
    THEN odds.q[k] ELSE 0

\* The highest price of any line.
BestQuote(odds) ==
    CHOOSE v \in {odds.q[k] : k \in Offsets} : \A j \in Offsets : v >= odds.q[j]

\* GoalsRule.evaluate.  _extract_odds turns both the direct and the nested
\* form into under_{N}.5 keys; the price is compared only when the key
\* under_{total_goals + buffer}.5 is among them.
GoalsRuleEvaluate(rule, md) ==
    LET total == md.score.h + md.score.a
        price == QuoteAt(md.odds, GoalsMarketOffset(rule.buffer2))
    IN  /\ ParsesSpaced(md.score)
        /\ ~(total < rule.min_goals \/ total > rule.max_goals)
        /\ (md.odds.form # "absent" /\ price # 0)
              => ~(price < rule.odds_min \/ price > rule.odds_max)

\* A variant of the time check that excludes both ends.
TimeRuleEvaluateExclusive(rule, md) ==
    rule.min_minute < md.minute /\ md.minute < rule.max_minute

\* TimeRule.evaluate: min_minute <= minute <= max_minute; the TypeError of
\* a minute that is not a number is caught and gives False.
TimeRuleEvaluate(rule, md) ==
    /\ md.minute # NonNumeric
    /\ rule.min_minute <= md.minute /\ md.minute <= rule.max_minute

\* OddsRule.evaluate: no odds data, an unparsable score, no under_ key at
\* the top level among the LinesTried lines from the total on, or a price
\* outside [min, max] all give False.
OddsRuleEvaluate(rule, md) ==
    LET found == {k \in Offsets : k < LinesTried /\ md.odds.q[k] # 0}
        first == CHOOSE k \in found : \A j \in found : k <= j
    IN  /\ md.odds.form = "direct"
        /\ ParsesSpaced(md.score)
        /\ found # {}
        /\ rule.min <= md.odds.q[first] /\ md.odds.q[first] <= rule.max

\* A variant that passes no rule over.
SkippedNever(rule) == FALSE

\* if not rule.active: continue
Skipped(rule) == ~rule.active

\* rule.evaluate(match_data) of an active class-based rule
ClassEvaluate(rule, md) ==
    CASE rule.type = "goals" -> GoalsRuleEvaluate(rule, md)
      [] rule.type = "time" -> TimeRuleEvaluate(rule, md)
      [] rule.type = "odds" -> OddsRuleEvaluate(rule, md)
      [] rule.type = "stake" -> TRUE
      [] rule.type = "divisor" -> TRUE

\* The branch of the loop for a class-based rule.
EvalClassRule(res, rule, md) ==
    IF Skipped(rule) THEN res
    ELSE IF ClassEvaluate(rule, md)
    THEN [res EXCEPT
            !.rules_passed = Append(@, rule.type),
            !.stake = IF rule.type = "stake" THEN rule.stake ELSE @,
            !.stake_strategy = IF rule.type = "stake"
                               THEN rule.stake_strategy ELSE @]
    ELSE [res EXCEPT !.rules_failed = Append(@, rule.type),
                     !.is_suitable = FALSE]

\* The price the dictionary goals rule compares: the one under the key
\* under_{total_goals + buffer}.5 if the snapshot has that key at the top
\* level, else, for nested odds, the highest price of all lines and
\* bookmakers; 0 when neither applies.
DictMarketOdds(rule, md) ==
    LET k == GoalsMarketOffset(rule.buffer2) IN
    IF md.odds.form = "direct" /\ QuoteAt(md.odds, k) # 0
    THEN QuoteAt(md.odds, k)
    ELSE IF md.odds.form = "nested" THEN BestQuote(md.odds)
    ELSE 0

\* The branch of the loop for a dictionary rule: goals (with its odds
\* check), time and stake are handled, every other rule_type is passed
\* over.
EvalDictRule(res, rule, md) ==
    IF Skipped(rule) THEN res
    ELSE IF rule.type = "goals"
    THEN LET total == TotalGoals(md.score)
             inRange == ~(total < rule.min_goals \/ total > rule.max_goals)
             price == DictMarketOdds(rule, md)
             oddsFail == /\ rule.hasOdds
                         /\ md.odds.form # "absent"
                         /\ price > 0
                         /\ (price < rule.odds_min \/ price > rule.odds_max)
             r1 == IF inRange
                   THEN [res EXCEPT !.rules_passed = Append(@, "goals")]
                   ELSE [res EXCEPT !.rules_failed = Append(@, "goals"),
                                    !.is_suitable = FALSE]
         IN  IF oddsFail
             THEN [r1 EXCEPT !.rules_failed = Append(@, "odds"),
                             !.is_suitable = FALSE]
             ELSE r1
    ELSE IF rule.type = "time"
    THEN IF md.minute < rule.min_minute \/ md.minute > rule.max_minute
         THEN [res EXCEPT !.rules_failed = Append(@, "time"),
                          !.is_suitable = FALSE]
         ELSE [res EXCEPT !.rules_passed = Append(@, "time")]
    ELSE IF rule.type = "stake"
    THEN [res EXCEPT !.stake = rule.stake,
                     !.stake_strategy = rule.stake_strategy,
                     !.rules_passed = Append(@, "stake")]
    ELSE res

\* for rule in rules: ...
RECURSIVE EvalRules(_, _, _)
EvalRules(res, rules, md) ==
    IF rules = <<>> THEN res
    ELSE EvalRules(IF Head(rules).repr = "class"
                   THEN EvalClassRule(res, Head(rules), md)
                   ELSE EvalDictRule(res, Head(rules), md),
                   Tail(rules), md)

\* The dictionary branch compares the minute outside any try block: with
\* a minute that is not a number the TypeError of minute < min_minute
\* leaves evaluate_betting_rules.
DictRuleRaises(rule, md) ==
    /\ rule.repr = "dict"
    /\ ~Skipped(rule)
    /\ rule.type = "time"
    /\ md.minute = NonNumeric

RulesRaise(md, rules) ==
    \E i \in 1..Len(rules) : DictRuleRaises(rules[i], md)

\* Apply divisor to stake if applicable.
ApplyDivisor(res) ==
    IF res.stake > 0 /\ res.divisor # NoDivisor /\ res.stake_strategy = "fixed"
    THEN [res EXCEPT !.stake = @ \div res.divisor,
                     !.stake_strategy = "percentage"]
    ELSE res

\* The rule verdict: results before the ML prediction is added.
\* No branch of the loop assigns results["divisor"].
RuleVerdict(md, rules) == ApplyDivisor(EvalRules(InitialResults, rules, md))

----------------------------------------------------------------------------
(* evaluate_betting_rules: the ML prediction *)

MLReduceConf == 50      \* confidence < 0.5 scales the stake down

\* The predictor at the time of the call: "unfitted" (predict_proba or
\* extract_features raises inside predict: the default model created when
\* no model file exists is not fitted), "raises" (get_ml_predictor or
\* predict raises to the caller), "fitted".  load_model always leaves a
\* model behind, so self.model is None ("none") is not among them.
MLConfSteps == {0, 29, 30, 45, 49, 50, 59, 60, 80, 81, 90}
MLStates ==
    {[model |-> m, conf |-> 0] : m \in {"unfitted", "raises"}}
    \cup [model : {"fitted"}, conf : MLConfSteps]

\* get_ml_predictor().predict(match_data) as evaluate_betting_rules sees it
PredictOutcome(ml, minute) ==
    IF ml.model = "raises"
    THEN [raised |-> TRUE, suitable |-> FALSE, conf |-> 0]
    ELSE IF ml.model = "none"
    THEN [raised |-> FALSE, suitable |-> FALSE, conf |-> 0]
    ELSE IF ml.model = "unfitted"
    THEN IF minute = HalfTime \/ minute < MLFromMinute
         THEN [raised |-> FALSE, suitable |-> TRUE, conf |-> MLDefaultConf]
         ELSE [raised |-> FALSE, suitable |-> FALSE, conf |-> 0]
    ELSE [raised |-> FALSE,
          suitable |-> Predict(minute, ml.conf).suitable,
          conf |-> Predict(minute, ml.conf).conf]

\* A variant of the decision logic whose veto starts at 0.3 inclusive.
BlendVetoAtThreshold(res, out) ==
    IF out.raised THEN res
    ELSE IF res.is_suitable /\ ~out.suitable
    THEN IF out.conf <= MLVetoConf
         THEN [res EXCEPT !.is_suitable = FALSE,
                          !.rules_failed = Append(@, "ml_prediction")]
         ELSE IF out.conf < MLReduceConf
         THEN [res EXCEPT !.stake = (@ * out.conf) \div 100]
         ELSE res
    ELSE IF ~res.is_suitable /\ out.suitable /\ out.conf > MLOverrideConf
    THEN [res EXCEPT !.is_suitable = TRUE,
                     !.rules_passed = Append(@, "ml_prediction_override")]
    ELSE res

\* A variant of the decision logic whose override starts at 0.8 inclusive.
BlendOverrideAtThreshold(res, out) ==
    IF out.raised THEN res
    ELSE IF res.is_suitable /\ ~out.suitable
    THEN IF out.conf < MLVetoConf
         THEN [res EXCEPT !.is_suitable = FALSE,
                          !.rules_failed = Append(@, "ml_prediction")]
         ELSE IF out.conf < MLReduceConf
         THEN [res EXCEPT !.stake = (@ * out.conf) \div 100]
         ELSE res
    ELSE IF ~res.is_suitable /\ out.suitable /\ out.conf >= MLOverrideConf
    THEN [res EXCEPT !.is_suitable = TRUE,
                     !.rules_passed = Append(@, "ml_prediction_override")]
    ELSE res

\* Apply ML decision logic based on confidence levels; an exception
\* leaves results as the rules made them.
Blend(res, out) ==
    IF out.raised THEN res
    ELSE IF res.is_suitable /\ ~out.suitable
    THEN IF out.conf < MLVetoConf
         THEN [res EXCEPT !.is_suitable = FALSE,
                          !.rules_failed = Append(@, "ml_prediction")]
         ELSE IF out.conf < MLReduceConf
         THEN [res EXCEPT !.stake = (@ * out.conf) \div 100]
         ELSE res
    ELSE IF ~res.is_suitable /\ out.suitable /\ out.conf > MLOverrideConf
    THEN [res EXCEPT !.is_suitable = TRUE,
                     !.rules_passed = Append(@, "ml_prediction_override")]
    ELSE res

EvaluateBettingRules(md, rules, ml) ==
    Blend(RuleVerdict(md, rules), PredictOutcome(ml, md.minute))

\* What analyze_match puts in the place of the results of a call that
\* raised.
NoResults ==
    [is_suitable |-> FALSE, rules_passed |-> <<>>, rules_failed |-> <<>>]

\* One call of evaluate_betting_rules on the input held in obs.  A call
\* that raises returns no results.
EvaluateRules ==
    /\ obs.kind = "rules_in"
    /\ obs' = [kind |-> "rules_out", md |-> obs.md, rules |-> obs.rules,
               ml |-> obs.ml,
               raised |-> RulesRaise(obs.md, obs.rules),
               verdict |-> IF RulesRaise(obs.md, obs.rules) THEN NoResults
                           ELSE RuleVerdict(obs.md, obs.rules),
               ml_out |-> PredictOutcome(obs.ml, obs.md.minute),
               final |-> IF RulesRaise(obs.md, obs.rules) THEN NoResults
                         ELSE EvaluateBettingRules(obs.md, obs.rules,
                                                   obs.ml)]
    /\ UNCHANGED <<now, bet, betSignals, pc, pend, created, schedTodo,
                   schedPc, schedSuitable, notified, betScores, cashout,
                   cashSignals>>

\* Everything but obs as Init has it.
AtRest ==
    /\ now = 0
    /\ bet = [k \in Keys |-> NoBet]
    /\ betSignals = [k \in Keys |-> 0]
    /\ pc = [p \in Pollers |-> "idle"]
    /\ pend = [p \in Pollers |-> NoBet]
    /\ created = [p \in Pollers |-> "-"]
    /\ schedTodo = {}
    /\ schedPc = "idle"
    /\ schedSuitable = 0
    /\ notified = 0
    /\ betScores = [e \in Events |-> NoBetScore]
    /\ cashout = [e \in Events |-> FALSE]
    /\ cashSignals = [e \in Events |-> 0]

\* Inputs of the blending runs: the in-play rule set (goals, time, stake),
\* and the same without its time rule, in either representation, snapshots
\* without odds, every predictor state.
BlendMinutes == {HalfTime, MLFromMinute - 1, MinMinute, MaxMinute + 1}
BlendScores == {s \in DocScores : s.fmt = "spaced" /\ s.a = 0 /\ s.h <= 1}
BlendMatchData ==
    [minute : BlendMinutes, score : BlendScores,
     odds : {[form |-> "absent", q |-> NoQuotes]}]
BlendRuleLists ==
    {<<g, t, st>> : g \in {r \in GoalsRules : r.active /\ r.hasOdds
                                                /\ r.buffer2 = 5},
                    t \in {r \in TimeRules : r.active},
                    st \in {r \in StakeRules : r.active}}
    \cup {<<g, st>> : g \in {r \in GoalsRules : r.active /\ r.hasOdds
                                                 /\ r.buffer2 = 5},
                      st \in {r \in StakeRules : r.active}}
BlendInputs ==
    {[kind |-> "rules_in", md |-> md, rules |-> rs, ml |-> ml] :
        md \in BlendMatchData,
        rs \in {l \in BlendRuleLists :
                   \A i \in 1..Len(l) : l[i].repr = l[1].repr},
        ml \in MLStates}

InitBlend == AtRest /\ obs \in BlendInputs
SpecBlend == InitBlend /\ [][EvaluateRules]_vars

RulesObserved == obs.kind = "rules_out"

\* C14: when the rule verdict is suitable and the ML verdict is not, a
\* confidence below 0.3 makes the final decision unsuitable, a confidence
\* from 0.3 up to but not including 0.5 keeps it suitable with the stake
\* multiplied by the confidence, and a confidence of 0.5 or more leaves
\* verdict and stake as the rules made them.
C14_RuleSuitableMLUnsuitable ==
    (/\ RulesObserved
     /\ ~obs.ml_out.raised
     /\ obs.verdict.is_suitable
     /\ ~obs.ml_out.suitable)
    => /\ obs.ml_out.conf < MLVetoConf => ~obs.final.is_suitable
       /\ (MLVetoConf <= obs.ml_out.conf /\ obs.ml_out.conf < MLReduceConf)
             => /\ obs.final.is_suitable
                /\ obs.final.stake * 100 = obs.verdict.stake * obs.ml_out.conf
       /\ obs.ml_out.conf >= MLReduceConf
             => /\ obs.final.is_suitable
                /\ obs.final.stake = obs.verdict.stake

\* A suitable rule verdict with a positive stake met an unsuitable ML
\* verdict of confidence 0.45: the stake went down to 0.45 of it.
C14_Witness ==
    /\ RulesObserved
    /\ obs.verdict.is_suitable
    /\ obs.verdict.stake = StakeHalf
    /\ ~obs.ml_out.raised /\ ~obs.ml_out.suitable
    /\ obs.ml_out.conf = 45
    /\ obs.final.is_suitable
    /\ obs.final.stake = 225000

\* C15: an unsuitable rule verdict becomes suitable only when the ML
\* verdict is suitable with a confidence strictly above 0.8; outside the
\* veto, stake reduction and override rows the rule verdict and the stake
\* stand unchanged.
C15_OverrideOnlyAboveThreshold ==
    RulesObserved
    => /\ ~obs.verdict.is_suitable
            => /\ obs.final.is_suitable
                    <=> (/\ ~obs.ml_out.raised
                         /\ obs.ml_out.suitable
                         /\ obs.ml_out.conf > MLOverrideConf)
               /\ obs.final.stake = obs.verdict.stake
       /\ (obs.verdict.is_suitable
            /\ (obs.ml_out.suitable \/ obs.ml_out.conf >= MLReduceConf))
            => /\ obs.final.is_suitable
               /\ obs.final.stake = obs.verdict.stake

\* An unsuitable rule verdict was overridden at confidence 0.81.
C15_Witness ==
    /\ RulesObserved
    /\ ~obs.verdict.is_suitable
    /\ obs.ml_out.suitable
    /\ obs.ml_out.conf = MLOverrideConf + 1
    /\ obs.final.is_suitable

\* C16: when the predictor is unavailable or its prediction fails, the
\* call returns the is_suitable and the stake of the rules alone.
C16_PredictorFailureKeepsVerdict ==
    (RulesObserved /\ obs.ml.model \in {"unfitted", "raises"})
    => /\ obs.final.is_suitable = obs.verdict.is_suitable
       /\ obs.final.stake = obs.verdict.stake

----------------------------------------------------------------------------
(* evaluate_betting_rules: one rule at a time *)

\* Inputs of the rule runs: every rule alone, a stake rule followed by a
\* divisor rule, and a time rule with a goals rule in either order, on
\* snapshots around the ends of the time window.
RuleMinutes == {HalfTime, MinMinute - 1, MinMinute, MaxMinute, MaxMinute + 1}
RuleMatchData == [minute : RuleMinutes, score : DocScores, odds : OddsData]
AllRules ==
    GoalsRules \cup TimeRules \cup StakeRules \cup OddsRules \cup DivisorRules
    \cup CompositeRules
RuleLists ==
    {<<r>> : r \in AllRules}
    \cup {<<st, dv>> : st \in {r \in StakeRules : r.active},
                       dv \in {r \in DivisorRules : r.active}}
    \cup {<<t, g>> : t \in {r \in TimeRules : r.active},
                     g \in {r \in GoalsRules : r.active}}
    \cup {<<g, t>> : t \in {r \in TimeRules : r.active},
                     g \in {r \in GoalsRules : r.active}}
RuleInputs ==
    {[kind |-> "rules_in", md |-> md, rules |-> rs, ml |-> ml] :
        md \in RuleMatchData,
        rs \in {l \in RuleLists : \A i \in 1..Len(l) : l[i].repr = l[1].repr},
        ml \in {x \in MLStates : x.model = "raises" \/ x.conf = 90}}

InitRules == AtRest /\ obs \in RuleInputs
SpecRules == InitRules /\ [][EvaluateRules]_vars

InSeq(x, s) == \E i \in 1..Len(s) : s[i] = x

\* The call was made with the one active rule of the given type.
OneActiveRule(type) ==
    /\ RulesObserved
    /\ Len(obs.rules) = 1
    /\ obs.rules[1].type = type
    /\ obs.rules[1].active

\* C17: an active time rule passes iff min_minute <= minute <= max_minute,
\* both ends included, whether the rule is a dictionary or an object: it is
\* then in rules_passed and the rule verdict is suitable, otherwise it is
\* in rules_failed and the rule verdict is unsuitable.
C17_TimeRuleInclusive ==
    OneActiveRule("time")
    => LET inside == /\ obs.rules[1].min_minute <= obs.md.minute
                     /\ obs.md.minute <= obs.rules[1].max_minute
       IN  /\ InSeq("time", obs.verdict.rules_passed) <=> inside
           /\ InSeq("time", obs.verdict.rules_failed) <=> ~inside
           /\ obs.verdict.is_suitable <=> inside

\* A class-based time rule 52..61 passed at minute 61.
C17_Witness ==
    /\ OneActiveRule("time")
    /\ obs.rules[1].repr = "class"
    /\ obs.md.minute = MaxMinute
    /\ obs.verdict.is_suitable
    /\ obs.verdict.rules_passed = <<"time">>

\* The price of the market under_{total_goals + buffer}.5 in the snapshot,
\* 0 when the snapshot has no such market.
ImpliedMarketPrice ==
    QuoteAt(obs.md.odds, GoalsMarketOffset(obs.rules[1].buffer2))

\* C18: an active goals rule gives a suitable verdict iff the total is
\* within [min_goals, max_goals] and, when the rule has an odds range and
\* the snapshot a price for the implied market, that price is within
\* [min_odds, max_odds]; a market that cannot be found changes nothing.
C18_GoalsRuleImpliedMarket ==
    OneActiveRule("goals")
    => LET r == obs.rules[1]
           total == obs.md.score.h + obs.md.score.a
       IN  obs.verdict.is_suitable
           <=> /\ ParsesSpaced(obs.md.score)
               /\ r.min_goals <= total /\ total <= r.max_goals
               /\ (r.hasOdds /\ ImpliedMarketPrice # 0)
                     => /\ r.odds_min <= ImpliedMarketPrice
                        /\ ImpliedMarketPrice <= r.odds_max

\* C19: an active odds rule fails closed: with no odds in the snapshot it
\* is in rules_failed and the rule verdict is unsuitable, whether the rule
\* is a dictionary or an object.
C19_OddsRuleFailsClosed ==
    (OneActiveRule("odds") /\ obs.md.odds.form \in {"absent", "empty"})
    => /\ InSeq("odds", obs.verdict.rules_failed)
       /\ ~obs.verdict.is_suitable

\* C20: with an active stake rule of a positive fixed stake followed by an
\* active divisor rule, the stake of the rule verdict is the stake of the
\* stake rule divided by the divisor, the strategy is "percentage", and
\* the verdict stays suitable.
C20_DivisorDividesStake ==
    (/\ RulesObserved
     /\ Len(obs.rules) = 2
     /\ obs.rules[1].type = "stake" /\ obs.rules[1].active
     /\ obs.rules[1].stake > 0 /\ obs.rules[1].stake_strategy = "fixed"
     /\ obs.rules[2].type = "divisor" /\ obs.rules[2].active)
    => /\ obs.verdict.stake = obs.rules[1].stake \div obs.rules[2].divisor
       /\ obs.verdict.stake_strategy = "percentage"
       /\ obs.verdict.is_suitable

\* One condition of a composite rule on a snapshot.
ConditionHolds(c, md) ==
    LET x == IF c.type = "goals" THEN md.score.h + md.score.a ELSE md.minute
    IN  CASE c.comparison = "<=" -> x <= c.value
          [] c.comparison = ">=" -> x >= c.value
          [] c.comparison = "<" -> x < c.value
          [] c.comparison = ">" -> x > c.value
          [] c.comparison = "between" -> c.min <= x /\ x <= c.max

\* C21: an active composite rule passes iff every one of its conditions
\* holds; with a failing condition the rule verdict is unsuitable and
\* "composite" is in rules_failed.
C21_CompositeIsConjunction ==
    (OneActiveRule("composite") /\ ParsesSpaced(obs.md.score))
    => LET r == obs.rules[1]
           all == \A i \in 1..Len(r.conditions) :
                      ConditionHolds(r.conditions[i], obs.md)
       IN  /\ obs.verdict.is_suitable <=> all
           /\ ~all => InSeq("composite", obs.verdict.rules_failed)

----------------------------------------------------------------------------
(* evaluate_betting_rules: inactive rules *)

\* Inputs of the runs with inactive rules: a rule alone, and an active rule
\* with an inactive one of any type and representation before or after it.
SkipMatchData ==
    [minute : {MinMinute - 1, MinMinute}, score : BlendScores,
     odds : {o \in OddsData : o.form = "absent"
                              \/ (o.form = "direct" /\ o.q[0] = 0
                                                    /\ o.q[3] = 150)}]
SkipRuleLists ==
    {<<r>> : r \in AllRules}
    \cup {<<a, i>> : a \in {r \in AllRules : r.active},
                     i \in {r \in AllRules : ~r.active}}
    \cup {<<i, a>> : a \in {r \in AllRules : r.active},
                     i \in {r \in AllRules : ~r.active}}
SkipInputs ==
    {[kind |-> "rules_in", md |-> md, rules |-> rs, ml |-> ml] :
        md \in SkipMatchData, rs \in SkipRuleLists,
        ml \in {x \in MLStates : x.model = "raises" \/ x.conf = 90}}

InitSkip == AtRest /\ obs \in SkipInputs
SpecSkip == InitSkip /\ [][EvaluateRules]_vars

IsActive(rule) == rule.active

\* C22: inactive rules are passed over: the rule verdict of a list is the
\* rule verdict of the list without its inactive rules, in is_suitable,
\* rules_passed, rules_failed, stake and stake_strategy.
C22_InactiveRulesSkipped ==
    RulesObserved
    => LET alone == RuleVerdict(obs.md, SelectSeq(obs.rules, IsActive))
       IN  /\ obs.verdict.is_suitable = alone.is_suitable
           /\ obs.verdict.rules_passed = alone.rules_passed
           /\ obs.verdict.rules_failed = alone.rules_failed
           /\ obs.verdict.stake = alone.stake
           /\ obs.verdict.stake_strategy = alone.stake_strategy

\* An inactive time rule, whose window the minute is outside of, came
\* after an active stake rule and left no trace.
C22_Witness ==
    /\ RulesObserved
    /\ Len(obs.rules) = 2
    /\ obs.rules[1].type = "stake" /\ obs.rules[1].active
    /\ obs.rules[2].type = "time" /\ ~obs.rules[2].active
    /\ obs.md.minute < obs.rules[2].min_minute
    /\ obs.verdict.is_suitable
    /\ obs.verdict.rules_passed = <<"stake">>
    /\ obs.verdict.rules_failed = <<>>

\* The active rules of the call that give a pass or fail verdict.
GatingRules ==
    {i \in 1..Len(obs.rules) :
        obs.rules[i].active /\ obs.rules[i].type \notin {"stake", "divisor"}}

\* The verdict of rule i of the call when it is evaluated alone.
PassesAlone(i) == RuleVerdict(obs.md, <<obs.rules[i]>>).is_suitable

\* C23 (first part): before the ML prediction, is_suitable is the
\* conjunction of the verdicts of the active gating rules, whatever their
\* order, and it is true iff rules_failed is empty.
C23_AggregateIsConjunction ==
    RulesObserved
    => /\ obs.verdict.is_suitable <=> \A i \in GatingRules : PassesAlone(i)
       /\ obs.verdict.is_suitable <=> obs.verdict.rules_failed = <<>>

\* C23: before the ML prediction, is_suitable is the conjunction of the
\* verdicts of the active gating rules, it is true iff rules_failed is
\* empty, and every rule that failed is named in rules_failed.
C23_FailedRulesNamed ==
    RulesObserved
    => /\ obs.verdict.is_suitable <=> \A i \in GatingRules : PassesAlone(i)
       /\ obs.verdict.is_suitable <=> obs.verdict.rules_failed = <<>>
       /\ \A i \in GatingRules :
              ~PassesAlone(i) => InSeq(obs.rules[i].type, obs.verdict.rules_failed)

----------------------------------------------------------------------------
(* evaluate_betting_rules: a rule that raises *)

\* Inputs of the runs with a minute that is not a number ("HT"): a time
\* rule alone, and a time rule with a goals rule in either order.
ErrMatchData ==
    [minute : {NonNumeric, MinMinute}, score : BlendScores,
     odds : {o \in OddsData : o.form = "absent"}]
ErrRuleLists ==
    {<<t>> : t \in {r \in TimeRules : r.active}}
    \cup {<<t, g>> : t \in {r \in TimeRules : r.active},
                     g \in {r \in GoalsRules : r.active}}
    \cup {<<g, t>> : t \in {r \in TimeRules : r.active},
                     g \in {r \in GoalsRules : r.active}}
ErrInputs ==
    {[kind |-> "rules_in", md |-> md, rules |-> rs, ml |-> ml] :
        md \in ErrMatchData, rs \in ErrRuleLists,
        ml \in {x \in MLStates : x.model = "raises" \/ x.conf = 90}}

InitErr == AtRest /\ obs \in ErrInputs
SpecErr == InitErr /\ [][EvaluateRules]_vars

\* C24: a rule whose evaluation raises internally counts as failed
\* closed and the other rules are still evaluated: with a minute that is
\* not a number the call returns, "time" is in rules_failed, the rule
\* verdict is unsuitable, and every goals rule of the list is in
\* rules_passed or rules_failed.
C24_RuleErrorIsolated ==
    (RulesObserved /\ obs.md.minute = NonNumeric)
    => /\ ~obs.raised
       /\ InSeq("time", obs.verdict.rules_failed)
       /\ ~obs.verdict.is_suitable
       /\ (\E i \in 1..Len(obs.rules) : obs.rules[i].type = "goals")
             => \/ InSeq("goals", obs.verdict.rules_passed)
                \/ InSeq("goals", obs.verdict.rules_failed)

----------------------------------------------------------------------------
(* MatchDataProcessor.process_match_document: minute and goals *)

\* A minute as a document carries it: an int, or a string of digits, "HT",
\* "FT", "NN+K", or a string that is none of these.
MinuteValues ==
    {[form |-> "int", n |-> MinMinute], [form |-> "digits", n |-> MinMinute],
     [form |-> "HT", n |-> 0], [form |-> "FT", n |-> 0],
     [form |-> "plus", n |-> HalfTime], [form |-> "junk", n |-> 0]}
NoMinute == [form |-> "absent", n |-> 0]
NoScore == [h |-> 0, a |-> 0, fmt |-> "absent"]
Missing == 0 - 1
FullTime == 90

\* Scores of the documents given to the processor.
NormScores ==
    {s \in DocScores : s.fmt = "bad" \/ (s.h = 1 /\ s.a = 1)
                                     \/ (s.h = 2 /\ s.a = 0)}

\* liveStats of a document: minute, score and the number of goal checks
\* of the VAR in progress among its events; NoLive without liveStats.
NoLive == [minute |-> NoMinute, score |-> NoScore, pending |-> Missing]
LiveStats ==
    [minute : MinuteValues \cup {NoMinute},
     score : NormScores \cup {NoScore},
     pending : 0..1]

\* The documents: the top-level fields minute, score and total_goals
\* (Missing when absent), liveStats, and whether the flat shot counts
\* home_shots_total and away_shots_total are there.
NormDocs ==
    [minute : MinuteValues \cup {NoMinute},
     score : NormScores \cup {NoScore},
     total_goals : {Missing, 2},
     liveStats : LiveStats \cup {NoLive},
     shots : BOOLEAN]

\* MatchDataProcessor._extract_minute
ExtractMinute(v) ==
    CASE v.form = "int" -> v
      [] v.form = "HT" -> [form |-> "int", n |-> HalfTime]
      [] v.form = "FT" -> [form |-> "int", n |-> FullTime]
      [] v.form = "plus" -> [form |-> "int", n |-> v.n]
      [] v.form = "digits" -> [form |-> "int", n |-> v.n]
      [] v.form = "junk" -> [form |-> "int", n |-> 0]
      [] v.form = "absent" -> [form |-> "int", n |-> 0]

\* score.replace("-", " - ") and the split: "H - A" and "H-A" both parse.
ParsesNormalized(score) == score.fmt \in {"spaced", "tight"}

\* confirmed_goals = max(0, total_goals - goals_pending_var)
ConfirmedGoals(total, pending) ==
    IF total - pending > 0 THEN total - pending ELSE 0

\* processed_data after the top-level fields have been read.
TopLevelRecord(doc) ==
    LET goals ==
          IF doc.score # NoScore
          THEN IF ParsesNormalized(doc.score)
               THEN [total_goals |-> doc.score.h + doc.score.a,
                     home_goals |-> doc.score.h, away_goals |-> doc.score.a]
               ELSE [total_goals |-> IF doc.total_goals = Missing THEN 0
                                     ELSE doc.total_goals,
                     home_goals |-> 0, away_goals |-> 0]
          ELSE [total_goals |-> doc.total_goals,
                home_goals |-> Missing, away_goals |-> Missing]
    IN  [minute |-> doc.minute, score |-> doc.score,
         total_goals |-> goals.total_goals, home_goals |-> goals.home_goals,
         away_goals |-> goals.away_goals]

\* Fall back to liveStats only if needed fields are missing and liveStats
\* exists.
UsesLiveStats(doc) ==
    /\ doc.liveStats # NoLive
    /\ ~(doc.score # NoScore /\ doc.minute # NoMinute /\ doc.shots)

\* process_match_document: the minute and goals fields of its result.
ProcessMatchDocument(doc) ==
    LET top == TopLevelRecord(doc)
        live == doc.liveStats
        score == IF live.score = NoScore
                 THEN [h |-> 0, a |-> 0, fmt |-> "spaced"] ELSE live.score
    IN  IF ~UsesLiveStats(doc) THEN top
        ELSE [minute |-> IF top.minute = NoMinute
                         THEN ExtractMinute(live.minute) ELSE top.minute,
              score |-> score,
              total_goals |-> IF ParsesNormalized(score)
                              THEN ConfirmedGoals(score.h + score.a,
                                                  live.pending)
                              ELSE 0,
              home_goals |-> IF ParsesNormalized(score) THEN score.h ELSE 0,
              away_goals |-> IF ParsesNormalized(score) THEN score.a ELSE 0]

\* One call of process_match_document on the document held in obs.
Normalise ==
    /\ obs.kind = "doc_in"
    /\ obs' = [kind |-> "doc_out", doc |-> obs.doc,
               rec |-> ProcessMatchDocument(obs.doc)]
    /\ UNCHANGED <<now, bet, betSignals, pc, pend, created, schedTodo,
                   schedPc, schedSuitable, notified, betScores, cashout,
                   cashSignals>>

InitNorm == AtRest /\ obs \in [kind : {"doc_in"}, doc : NormDocs]
SpecNorm == InitNorm /\ [][Normalise]_vars

\* The processor was given a document with a minute somewhere.
Normalised ==
    /\ obs.kind = "doc_out"
    /\ (obs.doc.minute # NoMinute \/ obs.doc.liveStats # NoLive)

\* The minute of the document as the processor finds it.
GivenMinute ==
    IF obs.doc.minute # NoMinute THEN obs.doc.minute
    ELSE obs.doc.liveStats.minute

\* C25: the minute of every feature record is an integer in [0, 120]:
\* integers and digit strings are kept, "HT" becomes 45, "FT" becomes 90,
\* "NN+K" becomes NN and anything else 0, wherever the minute comes from.
C25_MinuteIsInteger ==
    Normalised
    => /\ obs.rec.minute.form = "int"
       /\ 0 <= obs.rec.minute.n /\ obs.rec.minute.n <= 120
       /\ obs.rec.minute.n =
             (CASE GivenMinute.form \in {"int", "digits", "plus"}
                      -> GivenMinute.n
                [] GivenMinute.form = "HT" -> HalfTime
                [] GivenMinute.form = "FT" -> FullTime
                [] GivenMinute.form \in {"junk", "absent"} -> 0)

\* C26: in every feature record with goals, total_goals = home_goals +
\* away_goals, with goals pending review and with unparsable scores too.
C26_TotalIsSum ==
    (obs.kind = "doc_out" /\ obs.rec.home_goals # Missing)
    => obs.rec.total_goals = obs.rec.home_goals + obs.rec.away_goals

----------------------------------------------------------------------------
(* The life of a bet record: placements and the expiry of the key *)

NextTtl ==
    \/ \E e \in Events, d \in TrackDocs, up \in BOOLEAN, pubOk \in BOOLEAN :
          ProcessMatch(e, d, up, pubOk)
    \/ Tick

SpecTtl == Init /\ [][NextTtl]_vars

\* C27: a bet record expires a fixed TTL after the placement that created
\* it: no record is there once its TTL has run out, and as long as the
\* record of an event is there no poll moves the time it was placed at,
\* and with it the time it expires at.
C27_ExpiresAfterFixedTtl ==
    /\ [](\A k \in Keys : bet[k] # NoBet => TtlLeft(bet[k], now) > 0)
    /\ [][\A k \in Keys :
            (bet[k] # NoBet /\ bet'[k] # NoBet)
                => bet'[k].timestamp = bet[k].timestamp]_vars

----------------------------------------------------------------------------
(* analyze_match: the result *)

\* rules of analyze_match: goals, stake, time, all dictionaries
AnalyzeRules ==
    <<[repr |-> "dict", type |-> "goals", active |-> TRUE,
       min_goals |-> MinGoals, max_goals |-> MaxGoals, buffer2 |-> 5,
       hasOdds |-> TRUE, odds_min |-> OddsMin, odds_max |-> OddsMax],
      [repr |-> "dict", type |-> "stake", active |-> TRUE,
       stake |-> StakeHalf, stake_strategy |-> "fixed"],
      [repr |-> "dict", type |-> "time", active |-> TRUE,
       min_minute |-> MinMinute, max_minute |-> MaxMinute]>>

\* enhanced_match_data: its odds are {under_{total_goals + 3}.5: under_odds}
EnhancedMatchData(d) ==
    [minute |-> d.minute, score |-> d.score,
     odds |-> [form |-> "direct",
               q |-> [k \in Offsets |->
                        IF k = LineBuffer /\ UnderOddsPositive(d)
                        THEN OddsMin + 2 ELSE 0]]]

\* rule_results: what evaluate_betting_rules returned, or the empty
\* results of the except clause when it raised.
RuleResults(d, raises) ==
    IF raises THEN NoResults
    ELSE EvaluateBettingRules(EnhancedMatchData(d), AnalyzeRules,
                              [model |-> "fitted", conf |-> d.conf])

\* A variant that decides on the results of the rules alone.
ResultSuitableRulesOnly(d, raises) == RuleResults(d, raises).is_suitable

\* is_suitable = is_suitable_legacy and rule_results["is_suitable"], or
\* is_suitable_legacy alone in the except clause
ResultSuitable(d, raises) ==
    IF raises THEN LegacySuitable(d)
    ELSE LegacySuitable(d) /\ RuleResults(d, raises).is_suitable

\* Add reasons why match is or isn't suitable
RECURSIVE FailedReasons(_)
FailedReasons(failed) ==
    IF failed = <<>> THEN <<>>
    ELSE <<(<<"Failed", Head(failed)>>)>> \o FailedReasons(Tail(failed))

Reasons(d, raises) ==
    (IF d.minute < MinMinute \/ d.minute > MaxMinute
     THEN <<(<<"minute">>)>> ELSE <<>>)
    \o (IF TotalGoals(d.score) < MinGoals \/ TotalGoals(d.score) > MaxGoals
        THEN <<(<<"goals">>)>> ELSE <<>>)
    \o (IF d.gate = "avg_high" THEN <<(<<"avg_goals">>)>> ELSE <<>>)
    \o FailedReasons(RuleResults(d, raises).rules_failed)

NoRecommendation == [action |-> "none", market |-> 0 - 1]

\* The result of analyze_match on document d of match e.
AnalyzeMatch(e, d, raises) ==
    LET ok == ResultSuitable(d, raises) IN
    [is_suitable |-> ok,
     reasons |-> Reasons(d, raises),
     recommendation |-> IF ok THEN [action |-> "PLACE BET",
                                    market |-> BetMarket(d)]
                        ELSE NoRecommendation,
     bet_signal |-> ok /\ UnderOddsPositive(d)]

\* One call of analyze_match on the document held in obs.
Analyze ==
    /\ obs.kind = "match_in"
    /\ LET r == AnalyzeMatch(obs.id, obs.doc, obs.raises) IN
         /\ bet' = IF r.bet_signal
                   THEN TrackBet(bet, obs.id, BetDetails(obs.doc, now), obs.up)
                   ELSE bet
         /\ obs' = [kind |-> "match_out", id |-> obs.id, doc |-> obs.doc,
                    raises |-> obs.raises, up |-> obs.up, result |-> r]
    /\ UNCHANGED <<now, betSignals, pc, pend, created, schedTodo, schedPc,
                   schedSuitable, notified, betScores, cashout, cashSignals>>

InitAnalyze ==
    AtRest /\ obs \in [kind : {"match_in"}, id : Events, doc : Docs,
                       raises : BOOLEAN, up : BOOLEAN]
SpecAnalyze == InitAnalyze /\ [][Analyze]_vars

Analyzed == obs.kind = "match_out"

\* The two models of the decision agree when the rules do not raise.
ResultAgreesWithDecision ==
    (Analyzed /\ ~obs.raises)
    => /\ obs.result.is_suitable = IsSuitable(obs.doc)
       /\ obs.result.bet_signal = HasBetSignal(obs.doc)

\* C28: an unsuitable result has no recommendation, no bet signal, no
\* tracked bet and at least one reason; a suitable result recommends
\* "PLACE BET" on an under market.
C28_ResultShape ==
    Analyzed
    => /\ ~obs.result.is_suitable
            => /\ obs.result.recommendation = NoRecommendation
               /\ ~obs.result.bet_signal
               /\ bet[obs.id] = NoBet
               /\ obs.result.reasons # <<>>
       /\ obs.result.is_suitable
            => /\ obs.result.recommendation.action = "PLACE BET"
               /\ obs.result.recommendation.market = BetMarket(obs.doc)

C30_NoBlendingBeforeMinute50 ==
    (/\ obs.kind = "rules_out"
     /\ (obs.md.minute = HalfTime \/ obs.md.minute < MLFromMinute))
    => /\ ~obs.ml_out.raised
            => obs.ml_out.suitable /\ obs.ml_out.conf = MLDefaultConf
       /\ obs.final.is_suitable = obs.verdict.is_suitable
       /\ obs.final.stake = obs.verdict.stake
       /\ obs.final.rules_passed = obs.verdict.rules_passed
       /\ obs.final.rules_failed = obs.verdict.rules_failed

\* A suitable rule verdict at minute 49 and a model that would have given
\* 0.25: the verdict and its stake came through.
C30_Witness ==
    /\ obs.kind = "rules_out"
    /\ obs.md.minute = MLFromMinute - 1
    /\ obs.ml.model = "fitted" /\ obs.ml.conf < MLVetoConf
    /\ obs.verdict.is_suitable
    /\ obs.verdict.stake = StakeHalf
    /\ obs.final.is_suitable
    /\ obs.final.stake = StakeHalf
    /\ obs.final.rules_failed = <<>>

====
